---- MODULE Spec2Model ----
(***************************************************************************)
(* lunarphase-js, src/Moon.ts: the Moon's age, lunation number, distance,  *)
(* phase, phase emoji and waxing/waning state computed from a date.        *)
(*                                                                         *)
(* Numbers.  The library computes on JavaScript numbers.  Every decimal    *)
(* literal of Moon.ts has at most 11 fractional digits, so a number of     *)
(* days is modelled exactly as an integer count of 10^-11 day.  Such a     *)
(* count does not fit a 32-bit integer, so it is kept as a pair <<hi, lo>> *)
(* standing for hi * 10^9 + lo with 0 <= lo < 10^9 (hi counts 1/100 day;   *)
(* hi carries the sign).  29.53058770576 days is <<2953, 58770576>>.       *)
(* A quotient a / b is kept as the exact fraction [num |-> a, den |-> b].  *)
(* Binary floating-point rounding is not modelled.                         *)
(***************************************************************************)
EXTENDS Integers, Sequences, FiniteSets

LIMB == 1000 * 1000 * 1000

Zero == <<0, 0>>

\* hi * LIMB + lo brought back to 0 <= lo < LIMB
Norm(h, l) == <<h + (l \div LIMB), l % LIMB>>

\* a + b
Add(a, b) == Norm(a[1] + b[1], a[2] + b[2])

\* a - b
Sub(a, b) == Norm(a[1] - b[1], a[2] - b[2])

\* a < b
Lt(a, b) == a[1] < b[1] \/ (a[1] = b[1] /\ a[2] < b[2])

\* a <= b
Le(a, b) == ~Lt(b, a)

\* k * a for an integer k
RECURSIVE MulInt(_, _)
MulInt(k, a) ==
  IF k = 0 THEN Zero
  ELSE IF k < 0 THEN Sub(Zero, MulInt(-k, a))
  ELSE LET h == MulInt(k \div 2, a)
       IN  IF k % 2 = 1 THEN Add(Add(h, h), a) ELSE Add(h, h)

\* quotient and remainder of n by d, for n >= 0 and d > 0
RECURSIVE DivModPos(_, _)
DivModPos(n, d) ==
  IF Lt(n, d) THEN [q |-> 0, r |-> n]
  ELSE LET h == DivModPos(n, Add(d, d))
       IN  IF Lt(h.r, d) THEN [q |-> 2 * h.q, r |-> h.r]
           ELSE [q |-> 2 * h.q + 1, r |-> Sub(h.r, d)]

\* a / b, exactly
Div(a, b) == [num |-> a, den |-> b]

\* Math.floor(x) of a fraction x with x.den > 0: the largest integer <= x
Floor(x) ==
  IF ~Lt(x.num, Zero) THEN DivModPos(x.num, x.den).q
  ELSE LET m == DivModPos(Sub(Zero, x.num), x.den)
       IN  IF m.r = Zero THEN -m.q ELSE -m.q - 1

\* x - k for a fraction x and an integer k
FracMinusInt(x, k) == [num |-> Sub(x.num, MulInt(k, x.den)), den |-> x.den]

\* x * m for a fraction x = num / m: the product is num (no other product
\* is taken in Moon.ts)
Times(x, m) == CASE x.den = m -> x.num

\* Math.round(x): the nearest integer, a half rounding up, floor(x + 1/2)
Round(x) == Floor([num |-> Add(Add(x.num, x.num), x.den), den |-> Add(x.den, x.den)])

(***************************************************************************)
(* constants/Time                                                          *)
(***************************************************************************)
SYNODIC_MONTH == <<2953, 58770576>>                 \* 29.53058770576
ANOMALISTIC_MONTH == <<2755, 454988000>>            \* 27.55454988
LUNATION_BASE_JULIAN_DAY == <<242343661, 152777770>> \* 2423436.6115277777

(***************************************************************************)
(* JulianDay.fromDate: a Date is its time value, here in days since        *)
(* 1970-01-01T00:00Z; the Julian day of that instant is 2440587.5.         *)
(***************************************************************************)
fromDate(date) == Add(date, <<244058750, 0>>)

\* utils/MathUtil.normalize: x - floor(x)
normalize(value) == FracMinusInt(value, Floor(value))

(***************************************************************************)
(* constants/LunarPhase, constants/Hemisphere, constants/LunarEmoji,       *)
(* MoonOptions                                                             *)
(***************************************************************************)
LunarPhase ==
  {"NEW", "WAXING_CRESCENT", "FIRST_QUARTER", "WAXING_GIBBOUS",
   "FULL", "WANING_GIBBOUS", "LAST_QUARTER", "WANING_CRESCENT"}

Hemisphere == {"NORTHERN", "SOUTHERN"}

\* glyphs are named by their Unicode code points
NorthernHemisphereLunarEmoji ==
  [NEW |-> "U+1F311", WAXING_CRESCENT |-> "U+1F312", FIRST_QUARTER |-> "U+1F313",
   WAXING_GIBBOUS |-> "U+1F314", FULL |-> "U+1F315", WANING_GIBBOUS |-> "U+1F316",
   LAST_QUARTER |-> "U+1F317", WANING_CRESCENT |-> "U+1F318"]

\* the crescent, quarter and gibbous glyphs mirrored; NEW and FULL the same
SouthernHemisphereLunarEmoji ==
  [NEW |-> "U+1F311", WAXING_CRESCENT |-> "U+1F318", FIRST_QUARTER |-> "U+1F317",
   WAXING_GIBBOUS |-> "U+1F316", FULL |-> "U+1F315", WANING_GIBBOUS |-> "U+1F314",
   LAST_QUARTER |-> "U+1F313", WANING_CRESCENT |-> "U+1F312"]

\* An options object is the set of its <<key, value>> pairs; {} is the empty
\* object, and an omitted (undefined) argument spreads to nothing as well.
MoonOptionsFactory == {<<"hemisphere", "NORTHERN">>}

\* { ...a, ...b }: b's keys override a's
Spread(a, b) == {p \in a : \A o \in b : o[1] # p[1]} \cup b

\* the value of key k in object o
Get(o, k) == (CHOOSE p \in o : p[1] = k)[2]

(***************************************************************************)
(* Moon.ts                                                                 *)
(***************************************************************************)
\* lunarAgePercent without the normalize call
lunarAgePercent_unnormalized(date) ==
  Div(Sub(fromDate(date), <<245155010, 0>>), SYNODIC_MONTH)

lunarAgePercent(date) ==
  normalize(Div(Sub(fromDate(date), <<245155010, 0>>), SYNODIC_MONTH))

lunarAge(date) ==
  LET percent == lunarAgePercent(date)
  IN  Times(percent, SYNODIC_MONTH)

\* lunationNumber without the "+ 1"
lunationNumber_fromZero(date) ==
  Round(Div(Sub(fromDate(date), LUNATION_BASE_JULIAN_DAY), SYNODIC_MONTH))

lunationNumber(date) ==
  Round(Div(Sub(fromDate(date), LUNATION_BASE_JULIAN_DAY), SYNODIC_MONTH)) + 1

(***************************************************************************)
(* Angles.  An angle is kept in steps of 1/TurnSteps of a turn (2 * PI     *)
(* radians is TurnSteps steps), rounded down to a whole step, and Math.cos *)
(* is tabulated at those steps in millionths.  A distance is kept in units *)
(* of 10^-7 Earth radius: 60.4 is 604000000 and 3.3 * cos is 33 * cos.     *)
(***************************************************************************)
TurnSteps == 24

\* x * 2 * Math.PI for a fraction x of a turn, 0 <= x < 1
TimesTwoPi(x) == DivModPos(MulInt(TurnSteps, x.num), x.den).q

\* Math.cos at 0, 15, ..., 90 degrees
CosQuarter == <<1000000, 965926, 866025, 707107, 500000, 258819, 0>>

\* Math.cos(a), by the symmetries of the cosine
Cos(a) ==
  LET i == a % TurnSteps
      q == TurnSteps \div 4
  IN  IF i <= q THEN CosQuarter[i + 1]
      ELSE IF i <= 2 * q THEN -CosQuarter[2 * q - i + 1]
      ELSE IF i <= 3 * q THEN -CosQuarter[i - 2 * q + 1]
      ELSE CosQuarter[4 * q - i + 1]

\* the returned expression with the sign of its last term flipped
DistanceAt_plusLastTerm(radians, percent) ==
  604000000 - 33 * Cos(percent) - 6 * Cos(2 * radians - percent) + 5 * Cos(2 * radians)

\* the returned expression of lunarDistance
DistanceAt(radians, percent) ==
  604000000 - 33 * Cos(percent) - 6 * Cos(2 * radians - percent) - 5 * Cos(2 * radians)

lunarDistance(date) ==
  LET julian == fromDate(date)
      agePercent == lunarAgePercent(date)
      radians == TimesTwoPi(agePercent)
      percent == TimesTwoPi(normalize(Div(Sub(julian, <<245156220, 0>>), ANOMALISTIC_MONTH)))
  IN  DistanceAt(radians, percent)

\* lunarPhase with WAXING_GIBBOUS pasted over WANING_GIBBOUS
lunarPhase_pasted(date) ==
  LET age == lunarAge(date)
  IN  IF Lt(age, <<184, 566173161>>) THEN "NEW"
      ELSE IF Lt(age, <<553, 698519483>>) THEN "WAXING_CRESCENT"
      ELSE IF Lt(age, <<922, 830865805>>) THEN "FIRST_QUARTER"
      ELSE IF Lt(age, <<1291, 963212127>>) THEN "WAXING_GIBBOUS"
      ELSE IF Lt(age, <<1661, 95558449>>) THEN "FULL"
      ELSE IF Lt(age, <<2030, 227904771>>) THEN "WAXING_GIBBOUS"
      ELSE IF Lt(age, <<2399, 360251093>>) THEN "LAST_QUARTER"
      ELSE IF Lt(age, <<2768, 492597415>>) THEN "WANING_CRESCENT"
      ELSE "NEW"

\* lunarPhase comparing with <= instead of <
lunarPhase_inclusive(date) ==
  LET age == lunarAge(date)
  IN  IF Le(age, <<184, 566173161>>) THEN "NEW"
      ELSE IF Le(age, <<553, 698519483>>) THEN "WAXING_CRESCENT"
      ELSE IF Le(age, <<922, 830865805>>) THEN "FIRST_QUARTER"
      ELSE IF Le(age, <<1291, 963212127>>) THEN "WAXING_GIBBOUS"
      ELSE IF Le(age, <<1661, 95558449>>) THEN "FULL"
      ELSE IF Le(age, <<2030, 227904771>>) THEN "WANING_GIBBOUS"
      ELSE IF Le(age, <<2399, 360251093>>) THEN "LAST_QUARTER"
      ELSE IF Le(age, <<2768, 492597415>>) THEN "WANING_CRESCENT"
      ELSE "NEW"

lunarPhase(date) ==
  LET age == lunarAge(date)
  IN  IF Lt(age, <<184, 566173161>>) THEN "NEW"
      ELSE IF Lt(age, <<553, 698519483>>) THEN "WAXING_CRESCENT"
      ELSE IF Lt(age, <<922, 830865805>>) THEN "FIRST_QUARTER"
      ELSE IF Lt(age, <<1291, 963212127>>) THEN "WAXING_GIBBOUS"
      ELSE IF Lt(age, <<1661, 95558449>>) THEN "FULL"
      ELSE IF Lt(age, <<2030, 227904771>>) THEN "WANING_GIBBOUS"
      ELSE IF Lt(age, <<2399, 360251093>>) THEN "LAST_QUARTER"
      ELSE IF Lt(age, <<2768, 492597415>>) THEN "WANING_CRESCENT"
      ELSE "NEW"

\* The result of a call: a returned value, or a thrown Error.
Return(v) == [threw |-> FALSE, value |-> v]
Throw(msg) == [threw |-> TRUE, value |-> msg]

\* emojiForLunarPhase without its case for FULL
emojiForLunarPhase_noFull(phase, options) ==
  LET hemisphere == Get(Spread(MoonOptionsFactory, options), "hemisphere")
      emoji == IF hemisphere = "SOUTHERN" THEN NorthernHemisphereLunarEmoji
               ELSE SouthernHemisphereLunarEmoji
  IN  CASE phase = "NEW" -> Return(emoji["NEW"])
        [] phase = "WANING_CRESCENT" -> Return(emoji["WANING_CRESCENT"])
        [] phase = "LAST_QUARTER" -> Return(emoji["LAST_QUARTER"])
        [] phase = "WANING_GIBBOUS" -> Return(emoji["WANING_GIBBOUS"])
        [] phase = "WAXING_GIBBOUS" -> Return(emoji["WAXING_GIBBOUS"])
        [] phase = "FIRST_QUARTER" -> Return(emoji["FIRST_QUARTER"])
        [] phase = "WAXING_CRESCENT" -> Return(emoji["WAXING_CRESCENT"])
        [] OTHER -> Throw("Invalid lunar phase")

emojiForLunarPhase(phase, options) ==
  LET hemisphere == Get(Spread(MoonOptionsFactory, options), "hemisphere")
      emoji == IF hemisphere = "SOUTHERN" THEN NorthernHemisphereLunarEmoji
               ELSE SouthernHemisphereLunarEmoji
  IN  CASE phase = "NEW" -> Return(emoji["NEW"])
        [] phase = "WANING_CRESCENT" -> Return(emoji["WANING_CRESCENT"])
        [] phase = "LAST_QUARTER" -> Return(emoji["LAST_QUARTER"])
        [] phase = "WANING_GIBBOUS" -> Return(emoji["WANING_GIBBOUS"])
        [] phase = "FULL" -> Return(emoji["FULL"])
        [] phase = "WAXING_GIBBOUS" -> Return(emoji["WAXING_GIBBOUS"])
        [] phase = "FIRST_QUARTER" -> Return(emoji["FIRST_QUARTER"])
        [] phase = "WAXING_CRESCENT" -> Return(emoji["WAXING_CRESCENT"])
        [] OTHER -> Throw("Invalid lunar phase")

lunarPhaseEmoji(date, options) ==
  LET phase == lunarPhase(date)
  IN  emojiForLunarPhase(phase, options)

\* isWaxing comparing with < instead of <=
isWaxing_strict(date) ==
  LET age == lunarAge(date)
  IN  Lt(age, <<1476, 500000000>>)

\* isWaxing with the comparison turned round
isWaxing_reversed(date) ==
  LET age == lunarAge(date)
  IN  Le(<<1476, 500000000>>, age)

isWaxing(date) ==
  LET age == lunarAge(date)
  IN  Le(age, <<1476, 500000000>>)

\* isWaning comparing with >= instead of >
isWaning_inclusive(date) ==
  LET age == lunarAge(date)
  IN  Le(<<1476, 500000000>>, age)

isWaning(date) ==
  LET age == lunarAge(date)
  IN  Lt(<<1476, 500000000>>, age)

(***************************************************************************)
(* The dates the calls are made with.  Each is a time value in days since  *)
(* 1970-01-01T00:00Z.  They lie around the new moon of Julian day          *)
(* 2451550.1 and around lunation 1: every sixteenth of a synodic month     *)
(* (the phase boundaries and the phase centres), the age 14.765, each with *)
(* its neighbours a few 10^-11 day away, over several lunations on either  *)
(* side of the epoch.                                                      *)
(***************************************************************************)
MaxCycle == 1
Eps == 1
MaxHalfMonths == 2

\* 1/16 of SYNODIC_MONTH: 1.84566173161 days, the first boundary of lunarPhase
Sixteenth == <<184, 566173161>>

\* the ages the dates are taken at
AgePoints == {MulInt(k, Sixteenth) : k \in 0 .. 15} \cup {<<1476, 500000000>>}

\* the dates whose Julian days are 2451550.1 and LUNATION_BASE_JULIAN_DAY
NewMoonDate == Sub(<<245155010, 0>>, <<244058750, 0>>)
LunationBaseDate == Sub(LUNATION_BASE_JULIAN_DAY, <<244058750, 0>>)

Dates ==
  {Add(Add(NewMoonDate, MulInt(c, SYNODIC_MONTH)), Add(p, Norm(0, e))) :
     c \in -MaxCycle .. MaxCycle, p \in AgePoints, e \in -Eps .. Eps}
  \cup
  {Add(Add(LunationBaseDate, MulInt(j, MulInt(8, Sixteenth))), Norm(0, e)) :
     j \in -MaxHalfMonths .. MaxHalfMonths, e \in -Eps .. Eps}

\* the phase arguments: the enumeration, and a value outside it
PhaseArgs == LunarPhase \cup {"Blue Moon"}

\* the options arguments: omitted or empty, or naming a hemisphere
OptionsArgs == {{}} \cup {{<<"hemisphere", h>>} : h \in Hemisphere}

(***************************************************************************)
(* The state: the Date the caller holds, and the last call made with its   *)
(* arguments and its outcome.  The library itself keeps no state.          *)
(***************************************************************************)
VARIABLES date, call

vars == <<date, call>>

NoCall == [fn |-> "none"]

Init ==
  /\ date \in Dates
  /\ call = NoCall

\* the caller constructs another Date
NewDate ==
  /\ \E d \in Dates : date' = d
  /\ call' = NoCall

LunarAge ==
  /\ call' = [fn |-> "lunarAge", out |-> Return(lunarAge(date))]
  /\ UNCHANGED date

LunarAgePercent ==
  /\ call' = [fn |-> "lunarAgePercent", out |-> Return(lunarAgePercent(date))]
  /\ UNCHANGED date

LunationNumber ==
  /\ call' = [fn |-> "lunationNumber", out |-> Return(lunationNumber(date))]
  /\ UNCHANGED date

LunarDistance ==
  /\ call' = [fn |-> "lunarDistance", out |-> Return(lunarDistance(date))]
  /\ UNCHANGED date

LunarPhaseCall ==
  /\ call' = [fn |-> "lunarPhase", out |-> Return(lunarPhase(date))]
  /\ UNCHANGED date

LunarPhaseEmoji ==
  /\ \E o \in OptionsArgs :
       call' = [fn |-> "lunarPhaseEmoji", options |-> o, out |-> lunarPhaseEmoji(date, o)]
  /\ UNCHANGED date

EmojiForLunarPhase ==
  /\ \E p \in PhaseArgs, o \in OptionsArgs :
       call' = [fn |-> "emojiForLunarPhase", phase |-> p, options |-> o,
                out |-> emojiForLunarPhase(p, o)]
  /\ UNCHANGED date

IsWaxing ==
  /\ call' = [fn |-> "isWaxing", out |-> Return(isWaxing(date))]
  /\ UNCHANGED date

IsWaning ==
  /\ call' = [fn |-> "isWaning", out |-> Return(isWaning(date))]
  /\ UNCHANGED date

Next ==
  \/ NewDate
  \/ LunarAge
  \/ LunarAgePercent
  \/ LunationNumber
  \/ LunarDistance
  \/ LunarPhaseCall
  \/ LunarPhaseEmoji
  \/ EmojiForLunarPhase
  \/ IsWaxing
  \/ IsWaning

Spec == Init /\ [][Next]_vars

(***************************************************************************)
(* Properties                                                              *)
(***************************************************************************)
Called(f) == call.fn = f

\* the age of the Date held
Age == lunarAge(date)

WaxingPhases == {"WAXING_CRESCENT", "FIRST_QUARTER", "WAXING_GIBBOUS"}
WaningPhases == {"WANING_GIBBOUS", "LAST_QUARTER", "WANING_CRESCENT"}

\* the phases in the order of the cycle
PhaseOrder ==
  <<"NEW", "WAXING_CRESCENT", "FIRST_QUARTER", "WAXING_GIBBOUS",
    "FULL", "WANING_GIBBOUS", "LAST_QUARTER", "WANING_CRESCENT">>

PhaseIndex(p) == CHOOSE i \in 1 .. 8 : PhaseOrder[i] = p

Glyphs ==
  {NorthernHemisphereLunarEmoji[p] : p \in LunarPhase}
  \cup {SouthernHemisphereLunarEmoji[p] : p \in LunarPhase}

\* C1: emojiForLunarPhase(phase, options) returns, for each of the eight
\* phases, the NorthernHemisphereLunarEmoji entry when options.hemisphere is
\* NORTHERN or options is omitted, and the SouthernHemisphereLunarEmoji
\* entry when options.hemisphere is SOUTHERN.
C1_EmojiOfResolvedHemisphere ==
  (Called("emojiForLunarPhase") /\ call.phase \in LunarPhase) =>
    call.out =
      Return(IF <<"hemisphere", "SOUTHERN">> \in call.options
             THEN SouthernHemisphereLunarEmoji[call.phase]
             ELSE NorthernHemisphereLunarEmoji[call.phase])

\* C2 as stated: the ages classified to each of the eight phases form a
\* single interval, so between two ages of one phase every age has that
\* phase.
C2_EachPhaseOneInterval ==
  Called("lunarPhase") =>
    \A d2 \in Dates :
      (lunarPhase(d2) = call.out.value /\ Lt(Age, lunarAge(d2))) =>
        \A d3 \in Dates :
          (Lt(Age, lunarAge(d3)) /\ Lt(lunarAge(d3), lunarAge(d2))) =>
            lunarPhase(d3) = call.out.value

\* C2 as amended: every age in [0, SYNODIC_MONTH) is classified to one of
\* the eight phases, and along the age axis the classification runs through
\* nine contiguous half-open intervals: NEW, then the seven other phases in
\* the order of the cycle, one interval each, then NEW again.  So a later
\* age never has an earlier non-NEW phase, and an age classified NEW has
\* only NEW ages below it or only NEW ages above it.
C2_NineIntervalsInCycleOrder ==
  Called("lunarPhase") =>
    /\ call.out.value \in LunarPhase
    /\ Le(Zero, Age) /\ Lt(Age, SYNODIC_MONTH)
    /\ call.out.value # "NEW" =>
         \A d2 \in Dates :
           Le(Age, lunarAge(d2)) =>
             \/ lunarPhase(d2) = "NEW"
             \/ PhaseIndex(lunarPhase(d2)) >= PhaseIndex(call.out.value)
    /\ call.out.value = "NEW" =>
         \/ \A d2 \in Dates : Le(lunarAge(d2), Age) => lunarPhase(d2) = "NEW"
         \/ \A d2 \in Dates : Le(Age, lunarAge(d2)) => lunarPhase(d2) = "NEW"

\* lunarPhase returned NEW for an age in the upper NEW interval
C2_Witness ==
  /\ Called("lunarPhase")
  /\ call.out.value = "NEW"
  /\ Le(<<2768, 492597415>>, Age)

\* C3: exactly one of isWaxing(d) and isWaning(d) is true for every date d;
\* at the age 14.765 isWaxing is true and isWaning is false.
C3_ExactlyOneOfWaxingWaning ==
  /\ Called("isWaxing") =>
       /\ call.out.value # isWaning(date)
       /\ Age = <<1476, 500000000>> => call.out.value = TRUE
  /\ Called("isWaning") =>
       /\ call.out.value # isWaxing(date)
       /\ Age = <<1476, 500000000>> => call.out.value = FALSE

\* isWaning was called at the age 14.765 and returned false
C3_Witness ==
  /\ Called("isWaning")
  /\ Age = <<1476, 500000000>>
  /\ call.out.value = FALSE
  /\ isWaxing(date)

\* C4: emojiForLunarPhase throws exactly when phase is not one of the eight
\* LunarPhase values, and otherwise returns a glyph, under every hemisphere
\* option; no other function throws.
C4_ThrowsOnlyOnInvalidPhase ==
  /\ Called("emojiForLunarPhase") =>
       /\ call.out.threw <=> call.phase \notin LunarPhase
       /\ ~call.out.threw => call.out.value \in Glyphs
  /\ call.fn \notin {"none", "emojiForLunarPhase"} => ~call.out.threw

\* emojiForLunarPhase was called with a value outside the enumeration
C4_Witness ==
  /\ Called("emojiForLunarPhase")
  /\ call.phase \notin LunarPhase
  /\ call.out.threw

\* C5: for every date, also one before Julian day 2451550.1,
\* 0 <= lunarAgePercent < 1 and 0 <= lunarAge < SYNODIC_MONTH, and lunarAge is
\* lunarAgePercent * SYNODIC_MONTH.
C5_AgeWithinSynodicMonth ==
  /\ Called("lunarAgePercent") =>
       /\ Lt(Zero, call.out.value.den)
       /\ Le(Zero, call.out.value.num)
       /\ Lt(call.out.value.num, call.out.value.den)
  /\ Called("lunarAge") =>
       /\ Le(Zero, call.out.value)
       /\ Lt(call.out.value, SYNODIC_MONTH)
       /\ call.out.value = Times(lunarAgePercent(date), SYNODIC_MONTH)

\* lunarAge was called with a date before the epoch, where the ratio is negative
C5_Witness ==
  /\ Called("lunarAge")
  /\ Lt(fromDate(date), <<245155010, 0>>)
  /\ Lt(Zero, call.out.value)

\* C6: lunationNumber does not decrease as the date advances, increases by
\* exactly 1 when the date advances by one SYNODIC_MONTH, and is 1 at
\* LUNATION_BASE_JULIAN_DAY.
C6_LunationNumberAdvances ==
  /\ [](Called("lunationNumber") /\ fromDate(date) = LUNATION_BASE_JULIAN_DAY
          => call.out.value = 1)
  /\ [][Called("lunationNumber") =>
          /\ Le(date, date') => call.out.value <= lunationNumber(date')
          /\ date' = Add(date, SYNODIC_MONTH) =>
               lunationNumber(date') = call.out.value + 1]_vars

\* lunationNumber was called at LUNATION_BASE_JULIAN_DAY
C6_Witness ==
  /\ Called("lunationNumber")
  /\ fromDate(date) = LUNATION_BASE_JULIAN_DAY
  /\ call.out.value = 1

\* C7: lunarDistance lies within [56.0, 63.8] Earth radii, for every date
\* and for every combination of the two angles.
C7_DistanceWithinPerigeeApogee ==
  Called("lunarDistance") =>
    /\ 560000000 <= call.out.value /\ call.out.value <= 638000000
    /\ \A r, p \in 0 .. TurnSteps - 1 :
         560000000 <= DistanceAt(r, p) /\ DistanceAt(r, p) <= 638000000

\* lunarDistance returned a distance near the apogee
C7_Witness ==
  /\ Called("lunarDistance")
  /\ call.out.value >= 630000000

\* C8 as stated: isWaxing is true exactly when the age is at most half of
\* SYNODIC_MONTH, and isWaning exactly when it exceeds that half.
C8_SplitAtHalfSynodicMonth ==
  /\ Called("isWaxing") => (call.out.value <=> Le(Add(Age, Age), SYNODIC_MONTH))
  /\ Called("isWaning") => (call.out.value <=> Lt(SYNODIC_MONTH, Add(Age, Age)))

\* C8 as amended: isWaxing is true exactly when the age is at most 14.765
\* and isWaning exactly when it exceeds 14.765; 14.765 is below half of
\* SYNODIC_MONTH (14.76529385288), so a waxing age is below the half, and an
\* age that is waning is above 14.765 though it may be at most the half.
C8_SplitAtLiteral ==
  /\ Called("isWaxing") =>
       /\ call.out.value <=> Le(Age, <<1476, 500000000>>)
       /\ call.out.value => Lt(Add(Age, Age), SYNODIC_MONTH)
  /\ Called("isWaning") =>
       /\ call.out.value <=> Lt(<<1476, 500000000>>, Age)
       /\ Lt(SYNODIC_MONTH, Add(Age, Age)) => call.out.value

\* isWaxing was called at the age 14.765 and returned true
C8_Witness ==
  /\ Called("isWaxing")
  /\ Age = <<1476, 500000000>>
  /\ call.out.value = TRUE

\* C9: the boundaries of lunarPhase are the odd sixteenths of SYNODIC_MONTH,
\* (2k-1)/16 * SYNODIC_MONTH for k = 1..8: the phase of an age is the one
\* whose eighth of the month, centred on its multiple of SYNODIC_MONTH / 8,
\* holds the age, NEW being centred on 0; an age equal to a boundary has
\* the later phase.
C9_BoundariesAtOddSixteenths ==
  Called("lunarPhase") =>
    call.out.value =
      PhaseOrder[(DivModPos(Add(MulInt(16, Age), SYNODIC_MONTH),
                            MulInt(2, SYNODIC_MONTH)).q % 8) + 1]

\* lunarPhase was called at an age equal to the boundary 3/16 * SYNODIC_MONTH
C9_Witness ==
  /\ Called("lunarPhase")
  /\ MulInt(16, Age) = MulInt(3, SYNODIC_MONTH)
  /\ call.out.value = "FIRST_QUARTER"

\* C10: a waxing phase name comes only with isWaxing and a waning phase
\* name only with isWaning.
C10_PhaseNameAgreesWithWaxingWaning ==
  Called("lunarPhase") =>
    /\ call.out.value \in WaxingPhases => isWaxing(date)
    /\ call.out.value \in WaningPhases => isWaning(date)

\* lunarPhase returned WAXING_GIBBOUS on a date that isWaxing
C10_Witness ==
  /\ Called("lunarPhase")
  /\ call.out.value = "WAXING_GIBBOUS"
  /\ isWaxing(date)
  /\ ~isWaning(date)

====
